---- MODULE Spec2Model ----
(***************************************************************************)
(* Late fusion of expert logits: expert_fusion/mustard_fusion.py and       *)
(* expert_fusion/sarc/sarc_fusion.py.                                       *)
(*                                                                         *)
(* A run loads the per-expert JSON-Lines files into the index `results`    *)
(* (load_and_transform_data) and then calls fusion strategies on it.       *)
(*                                                                         *)
(* Numbers.  Logits are integers in hundredths (145 is 1.45).  np.exp is   *)
(* the table Exp, in thousandths; a softmax probability is a fixed-point   *)
(* integer in units of 1/ProbScale; a threshold and a weight are in        *)
(* tenths.  Python's None target is the integer None (-1): class indices   *)
(* are never negative.                                                     *)
(*                                                                         *)
(* expert_BLIP2/train.py, train(): the training loop with its periodic     *)
(* evaluation and checkpoint (SpecTrain).                                  *)
(***************************************************************************)
EXTENDS Integers, Sequences, FiniteSets, TLC

VARIABLES
    variant,        \* which script runs: "mustard" or "sarc"
    subset_names,   \* the list the loader iterates
    files,          \* Open (any line may come next) or name -> lines
    k,              \* loader: index into subset_names of the file being read
    pos,            \* loader: lines read of the current file
    dataset,        \* loader: dataset[name], the lines appended so far
    results,        \* the index: entries in key insertion order
    pc,             \* "loading", "loaded" (index returned) or "aborted"
    call,           \* the last strategy call made on the index
    out,            \* what that call did
    trainer         \* expert_BLIP2/train.py: train()'s locals, model.training,
                    \* the checkpoint at args.save_path

vars ==
    <<variant, subset_names, files, k, pos, dataset, results, pc, call, out,
      trainer>>

\* ------------------------------------------------------------------ bounds
MaxRecords == 2     \* lines read in one run when the files are Open
MaxDefaults == 1    \* empty lists a run lets defaultdict(list) insert

\* --------------------------------------------------------------- constants
None == -1
ProbScale == 10000
MeanScale == 1000
Open == <<>>           \* no file contents given: the files are read as they come
Absent == <<>>
NoCall == [fn |-> "none", arg |-> 0]
NoTrainer == [pc |-> "none"]          \* the fusion scripts do not train
NoOut ==
    [status |-> "none", preds |-> <<>>, detail |-> <<>>, accuracy |-> <<>>,
     scores |-> <<>>]

Variants == {"mustard", "sarc"}

SubsetNames(v) ==
    IF v = "mustard" THEN <<"AS", "R", "U", "baseline">> ELSE <<"AS", "R", "U">>

Range(seq) == {seq[i] : i \in 1..Len(seq)}

\* ------------------------------------------------------------- input sets
\* (image_id, text) pairs of the lines: the first two give the same key
KeyPairs == {<<"a", "b_c">>, <<"a_b", "c">>, <<"b", "c">>}
Targets == {0, 1}
LoaderVectors == {<<145, 0>>, <<0, 300>>}

Line(p, l, t) == [image_id |-> p[1], text |-> p[2], logits |-> l, target |-> t]

\* the lines an Open file may yield
Lines == {Line(p, l, t) : p \in KeyPairs, l \in LoaderVectors, t \in Targets}

\* ------------------------------------------------------------------ loader
\* data_id = f"{image_id}_{text}"
DataId(line) == line.image_id \o "_" \o line.text

\* position of key d in an insertion-ordered list of entries, 0 if absent
RECURSIVE FindFrom(_, _, _)
FindFrom(seq, d, i) ==
    IF i > Len(seq) THEN 0
    ELSE IF seq[i].id = d THEN i ELSE FindFrom(seq, d, i + 1)

Find(seq, d) == FindFrom(seq, d, 1)

\* position of expert name n in an example's logits dict, 0 if absent
RECURSIVE FindNameFrom(_, _, _)
FindNameFrom(lg, n, i) ==
    IF i > Len(lg) THEN 0
    ELSE IF lg[i].name = n THEN i ELSE FindNameFrom(lg, n, i + 1)

FindName(lg, n) == FindNameFrom(lg, n, 1)

HasName(lg, n) == FindName(lg, n) # 0

GetItem(lg, n) == lg[FindName(lg, n)].logits

\* d[n] = v on an insertion-ordered dict: in place if n is a key, else appended
SetItem(lg, n, v) ==
    IF HasName(lg, n)
    THEN [lg EXCEPT ![FindName(lg, n)] = [name |-> n, logits |-> v]]
    ELSE Append(lg, [name |-> n, logits |-> v])

\* results[data_id]: the defaultdict creates {"logits": {}, "target": None}
Touch(res, d) ==
    IF Find(res, d) # 0 THEN res
    ELSE Append(res, [id |-> d, logits |-> <<>>, target |-> None])

\* (mutant) the logits are stored only with the first line of an example
StoreLogitsOfNewExample(res, name, line) ==
    IF Find(res, DataId(line)) # 0 THEN res
    ELSE Append(res, [id |-> DataId(line),
                      logits |-> <<[name |-> name, logits |-> line.logits]>>,
                      target |-> None])

\* results[data_id]["logits"][name] = line["logits"]
StoreLogits(res, name, line) ==
    LET r == Touch(res, DataId(line))
        i == Find(r, DataId(line))
    IN  [r EXCEPT ![i].logits = SetItem(r[i].logits, name, line.logits)]

\* (mutant) the target is stored without the `is None` test
StoreTargetAlways(res, line) ==
    [res EXCEPT ![Find(res, DataId(line))].target = line.target]

\* if results[data_id]["target"] is None: results[data_id]["target"] = ...
StoreTarget(res, line) ==
    LET i == Find(res, DataId(line))
    IN  IF res[i].target = None
        THEN [res EXCEPT ![i].target = line.target]
        ELSE res

\* the body of the loop over the lines of one file, up to the assert
ReadOne(res, name, line) == StoreTarget(StoreLogits(res, name, line), line)

\* assert results[data_id]["target"] == line["target"]
AssertHolds(res, line) == res[Find(res, DataId(line))].target = line.target

\* the loader as a function of the files: the loop over the lines of one file
RECURSIVE LoadLines(_, _, _, _)
LoadLines(st, name, lines, i) ==
    IF i > Len(lines) \/ ~st.ok THEN st
    ELSE LET r == ReadOne(st.res, name, lines[i])
         IN  LoadLines([res |-> r, ok |-> AssertHolds(r, lines[i])], name, lines, i + 1)

\* the loop over the names, in the order `names`
RECURSIVE LoadFiles(_, _, _, _)
LoadFiles(st, names, fs, j) ==
    IF j > Len(names) THEN st
    ELSE LoadFiles(LoadLines(st, names[j], fs[names[j]], 1), names, fs, j + 1)

\* load_and_transform_data on the files fs with subset_names = names:
\* the index, and whether every assert held
Load(names, fs) == LoadFiles([res |-> <<>>, ok |-> TRUE], names, fs, 1)

TotalRead ==
    LET S[i \in 0..Len(subset_names)] ==
            IF i = 0 THEN 0 ELSE S[i - 1] + Len(dataset[subset_names[i]])
    IN  S[Len(subset_names)]

\* the message of the loader's assert
AssertMessage == "Targets do not match across subsets for the same data."

\* an exception that leaves the loader: its type and its args
Failed(type, args) ==
    [status |-> type, preds |-> <<>>, detail |-> args, accuracy |-> <<>>,
     scores |-> <<>>]

\* one iteration of `for line in f`
Step(name, line) ==
    /\ dataset' = [dataset EXCEPT ![name] = Append(@, line)]
    /\ results' = ReadOne(results, name, line)
    /\ pc' = IF AssertHolds(results', line) THEN "loading" ELSE "aborted"
    /\ out' = IF AssertHolds(results', line) THEN out
              ELSE Failed("AssertionError", <<AssertMessage>>)
    /\ pos' = pos + 1
    /\ UNCHANGED <<variant, subset_names, files, k, call, trainer>>

\* the open file yields a line
ReadLine ==
    /\ pc = "loading"
    /\ k <= Len(subset_names)
    /\ files = Open
    /\ TotalRead < MaxRecords
    /\ \E line \in Lines : Step(subset_names[k], line)

\* the next line of a given file
ReadFileLine ==
    /\ pc = "loading"
    /\ k <= Len(subset_names)
    /\ files # Open
    /\ pos < Len(files[subset_names[k]])
    /\ Step(subset_names[k], files[subset_names[k]][pos + 1])

\* the file is exhausted: the next name of subset_names
EndOfFile ==
    /\ pc = "loading"
    /\ k <= Len(subset_names)
    /\ files # Open => pos = Len(files[subset_names[k]])
    /\ k' = k + 1
    /\ pos' = 0
    /\ UNCHANGED <<variant, subset_names, files, dataset, results, pc, call, out,
                   trainer>>

\* return dataset, results
Return ==
    /\ pc = "loading"
    /\ k > Len(subset_names)
    /\ pc' = "loaded"
    /\ UNCHANGED <<variant, subset_names, files, k, pos, dataset, results, call, out,
                   trainer>>

InitLoader(v, names, f) ==
    /\ variant = v
    /\ subset_names = names
    /\ files = f
    /\ k = 1
    /\ pos = 0
    /\ dataset = [n \in Range(names) |-> <<>>]
    /\ results = <<>>
    /\ pc = "loading"
    /\ call = NoCall
    /\ out = NoOut
    /\ trainer = NoTrainer

\* ------------------------------------------------------ numeric helpers
RECURSIVE SumFrom(_, _)
SumFrom(seq, i) == IF i > Len(seq) THEN 0 ELSE seq[i] + SumFrom(seq, i + 1)

\* sum(seq)
Sum(seq) == SumFrom(seq, 1)

RECURSIVE MaxFrom(_, _)
MaxFrom(seq, i) ==
    IF i = Len(seq) THEN seq[i]
    ELSE LET m == MaxFrom(seq, i + 1) IN IF seq[i] >= m THEN seq[i] ELSE m

\* max(seq) of a non-empty seq
Max(seq) == MaxFrom(seq, 1)

RECURSIVE IndexFrom(_, _, _)
IndexFrom(seq, v, i) == IF seq[i] = v THEN i - 1 ELSE IndexFrom(seq, v, i + 1)

RECURSIVE LastIndexFrom(_, _, _)
LastIndexFrom(seq, v, i) == IF seq[i] = v THEN i - 1 ELSE LastIndexFrom(seq, v, i - 1)

\* (mutant) the last of equal maxima
ArgMaxLast(seq) == LastIndexFrom(seq, Max(seq), Len(seq))

\* seq.index(max(seq)), np.argmax(seq): 0-based, the first of equal maxima
ArgMax(seq) == IndexFrom(seq, Max(seq), 1)

\* np.exp on the logit values of the inputs: e^(x/100) in thousandths
Exp(x) ==
    CASE x = 0 -> 1000
      [] x = 30 -> 1350
      [] x = 100 -> 2718
      [] x = 145 -> 4263
      [] x = 200 -> 7389
      [] x = 300 -> 20086

\* np.exp(x) of a float64 is inf above 709.78
ExpMax == 70978
Overflows(x) == x > ExpMax

\* a float nan, among probabilities (which are never negative)
NaN == -2

\* np.exp(logits) / np.sum(np.exp(logits)), in units of 1/ProbScale: the
\* exponentials are taken of the logits as they are, so with an inf among
\* them the sum is inf, inf / inf is nan and a finite value / inf is 0
Softmax(logits) ==
    LET e == [i \in 1..Len(logits) |-> Exp(logits[i])]
    IN  IF \E i \in 1..Len(logits) : Overflows(logits[i])
        THEN [i \in 1..Len(logits) |-> IF Overflows(logits[i]) THEN NaN ELSE 0]
        ELSE [i \in 1..Len(logits) |-> (e[i] * ProbScale) \div Sum(e)]

\* np.max of a non-empty array: nan if the array holds a nan
NpMax(a) == IF \E i \in 1..Len(a) : a[i] = NaN THEN NaN ELSE Max(a)

\* np.argmax of a non-empty array: the first nan if there is one, else the
\* first of the equal maxima
NpArgMax(a) ==
    IF \E i \in 1..Len(a) : a[i] = NaN THEN IndexFrom(a, NaN, 1) ELSE ArgMax(a)

\* x > y on floats: False when either is nan
Greater(x, y) == x # NaN /\ y # NaN /\ x > y

\* data["logits"].values()
Values(lg) == [i \in 1..Len(lg) |-> lg[i].logits]

RECURSIVE MinLenFrom(_, _)
MinLenFrom(vs, i) ==
    IF i = Len(vs) THEN Len(vs[i])
    ELSE LET m == MinLenFrom(vs, i + 1) IN IF Len(vs[i]) <= m THEN Len(vs[i]) ELSE m

\* zip(*vs): one column per position, as long as the shortest of vs
Zip(vs) ==
    IF vs = <<>> THEN <<>>
    ELSE [i \in 1..MinLenFrom(vs, 1) |-> [e \in 1..Len(vs) |-> vs[e][i]]]

\* sum(col) / len(col), in units of 1/MeanScale of the entries' unit
Mean(col) == (Sum(col) * MeanScale) \div Len(col)

\* np.mean of a column: nan if the column holds a nan
NpMean(col) == IF \E i \in 1..Len(col) : col[i] = NaN THEN NaN ELSE Mean(col)

\* ---------------------------------------------------- one example's step
Ok(p, d) == [status |-> "ok", pred |-> p, detail |-> d]
Raise(e) == [status |-> e, pred |-> None, detail |-> <<>>]

\* total_logits.index(max(total_logits)): max() of [] raises ValueError
IndexOfMax(total) ==
    IF total = <<>> THEN Raise("ValueError") ELSE Ok(ArgMax(total), total)

\* interaction_type_acc, the loop body; lg is data["logits"] after the lookup
InteractionType(lg, interaction_type) == IndexOfMax(GetItem(lg, interaction_type))

\* data["logits"][interaction_type] on a defaultdict(list)
Lookup(lg, n) == IF HasName(lg, n) THEN lg ELSE SetItem(lg, n, <<>>)

\* simple_average_fusion, the loop body
SimpleAverage(lg) ==
    LET cols == Zip(Values(lg))
    IN  IndexOfMax([i \in 1..Len(cols) |-> Mean(cols[i])])

\* zip(weights, data["logits"].values())
ZipWeights(weights, vs) ==
    LET n == IF Len(weights) <= Len(vs) THEN Len(weights) ELSE Len(vs)
    IN  [j \in 1..n |-> [w |-> weights[j], logits |-> vs[j]]]

\* weighted_average_fusion, the loop body
WeightedAverage(lg, weights) ==
    LET vs == Values(lg)
        pairs == ZipWeights(weights, vs)
    IN  IF vs = <<>> THEN Raise("StopIteration")
        ELSE IF \E j \in 1..Len(pairs) : Len(pairs[j].logits) < Len(vs[1])
        THEN Raise("IndexError")
        ELSE IndexOfMax([i \in 1..Len(vs[1]) |->
                 Sum([j \in 1..Len(pairs) |-> pairs[j].w * pairs[j].logits[i]])])

\* max_fusion, the loop body
MaxFusion(lg) ==
    LET cols == Zip(Values(lg))
    IN  IndexOfMax([i \in 1..Len(cols) |-> Max(cols[i])])

\* softmax_fusion, the loop body.  np.mean(softmaxed_probs, axis=0) needs
\* vectors of one length; of no vector at all it is nan, whose argmax is 0
SoftmaxFusion(lg) ==
    LET probs == [j \in 1..Len(lg) |-> Softmax(lg[j].logits)]
        cols == Zip(probs)
        average_probs == [i \in 1..Len(cols) |-> NpMean(cols[i])]
    IN  IF probs = <<>> THEN Ok(NpArgMax(<<NaN>>), <<NaN>>)
        ELSE IF \E j \in 1..Len(probs) : Len(probs[j]) # Len(probs[1])
        THEN Raise("ValueError")
        ELSE IF average_probs = <<>> THEN Raise("ValueError")
        ELSE Ok(NpArgMax(average_probs), average_probs)

RECURSIVE SoftmaxAll(_, _, _)
\* for interaction_type, logits in data["logits"].items(): softmaxed_probs[...] = ...
SoftmaxAll(softmaxed_probs, lg, j) ==
    IF j > Len(lg) THEN softmaxed_probs
    ELSE SoftmaxAll(SetItem(softmaxed_probs, lg[j].name, Softmax(lg[j].logits)), lg, j + 1)

\* a threshold in tenths, in units of 1/ProbScale
Scaled(threshold) == threshold * (ProbScale \div 10)

\* np.max(softmaxed_probs[n]) / np.argmax(softmaxed_probs[n]): "" if it works
Access(sp, n) ==
    IF ~HasName(sp, n) THEN "KeyError"
    ELSE IF GetItem(sp, n) = <<>> THEN "ValueError" ELSE ""

\* (mutant) `>=` for `>` between the two maxima: R wins a tie
CascadeTieToR(sp, threshold) ==
    IF Access(sp, "R") # "" THEN Raise(Access(sp, "R"))
    ELSE IF Greater(NpMax(GetItem(sp, "R")), Scaled(threshold))
    THEN IF Access(sp, "U") # "" THEN Raise(Access(sp, "U"))
         ELSE IF Greater(NpMax(GetItem(sp, "U")), Scaled(threshold))
         THEN IF ~Greater(NpMax(GetItem(sp, "U")), NpMax(GetItem(sp, "R")))
              THEN Ok(NpArgMax(GetItem(sp, "R")), "R")
              ELSE Ok(NpArgMax(GetItem(sp, "U")), "U")
         ELSE IF Access(sp, "AS") # "" THEN Raise(Access(sp, "AS"))
         ELSE Ok(NpArgMax(GetItem(sp, "AS")), "AS")
    ELSE IF Access(sp, "AS") # "" THEN Raise(Access(sp, "AS"))
    ELSE Ok(NpArgMax(GetItem(sp, "AS")), "AS")

\* (mutant) `or` for `and` between the two threshold tests
CascadeEither(sp, threshold) ==
    IF Access(sp, "R") # "" THEN Raise(Access(sp, "R"))
    ELSE IF Access(sp, "U") # "" THEN Raise(Access(sp, "U"))
    ELSE IF \/ Greater(NpMax(GetItem(sp, "R")), Scaled(threshold))
            \/ Greater(NpMax(GetItem(sp, "U")), Scaled(threshold))
    THEN IF Greater(NpMax(GetItem(sp, "R")), NpMax(GetItem(sp, "U")))
         THEN Ok(NpArgMax(GetItem(sp, "R")), "R")
         ELSE Ok(NpArgMax(GetItem(sp, "U")), "U")
    ELSE IF Access(sp, "AS") # "" THEN Raise(Access(sp, "AS"))
    ELSE Ok(NpArgMax(GetItem(sp, "AS")), "AS")

\* cascaded_fusion, the if/else on the table softmaxed_probs
Cascade(sp, threshold) ==
    IF Access(sp, "R") # "" THEN Raise(Access(sp, "R"))
    ELSE IF Greater(NpMax(GetItem(sp, "R")), Scaled(threshold))
    THEN IF Access(sp, "U") # "" THEN Raise(Access(sp, "U"))
         ELSE IF Greater(NpMax(GetItem(sp, "U")), Scaled(threshold))
         THEN IF Greater(NpMax(GetItem(sp, "R")), NpMax(GetItem(sp, "U")))
              THEN Ok(NpArgMax(GetItem(sp, "R")), "R")
              ELSE Ok(NpArgMax(GetItem(sp, "U")), "U")
         ELSE IF Access(sp, "AS") # "" THEN Raise(Access(sp, "AS"))
         ELSE Ok(NpArgMax(GetItem(sp, "AS")), "AS")
    ELSE IF Access(sp, "AS") # "" THEN Raise(Access(sp, "AS"))
    ELSE Ok(NpArgMax(GetItem(sp, "AS")), "AS")

\* ------------------------------------------------------- the loops
\* the first example whose step raises, 0 if none
RECURSIVE FirstRaise(_, _)
FirstRaise(steps, i) ==
    IF i > Len(steps) THEN 0
    ELSE IF steps[i].status # "ok" THEN i ELSE FirstRaise(steps, i + 1)

\* for data_id, data in results.items(): the predictions appended until a
\* step raises, and the exception that ended the loop
Loop(steps) ==
    LET e == FirstRaise(steps, 1)
        n == IF e = 0 THEN Len(steps) ELSE e - 1
    IN  [status |-> IF e = 0 THEN "ok" ELSE steps[e].status,
         preds |-> [i \in 1..n |-> steps[i].pred],
         detail |-> [i \in 1..n |-> steps[i].detail]]

\* the table softmaxed_probs at the if of example i: mustard creates it once,
\* before the loop; sarc creates it in the loop body
RECURSIVE Table(_, _, _)
Table(v, res, i) ==
    IF i = 0 THEN <<>>
    ELSE SoftmaxAll(IF v = "mustard" THEN Table(v, res, i - 1) ELSE <<>>,
                    res[i].logits, 1)

interaction_type_steps(res, interaction_type) ==
    [i \in 1..Len(res) |->
        InteractionType(Lookup(res[i].logits, interaction_type), interaction_type)]

simple_average_steps(res) == [i \in 1..Len(res) |-> SimpleAverage(res[i].logits)]

weighted_average_steps(res, weights) ==
    [i \in 1..Len(res) |-> WeightedAverage(res[i].logits, weights)]

max_steps(res) == [i \in 1..Len(res) |-> MaxFusion(res[i].logits)]

softmax_steps(res) == [i \in 1..Len(res) |-> SoftmaxFusion(res[i].logits)]

cascaded_steps(v, res, threshold) ==
    [i \in 1..Len(res) |-> Cascade(Table(v, res, i), threshold)]

\* the index after interaction_type_acc: every example the loop reached has
\* the key interaction_type
AfterLookups(res, interaction_type) ==
    LET e == FirstRaise(interaction_type_steps(res, interaction_type), 1)
        n == IF e = 0 THEN Len(res) ELSE e
    IN  [i \in 1..Len(res) |->
            IF i <= n
            THEN [res[i] EXCEPT !.logits = Lookup(@, interaction_type)]
            ELSE res[i]]

\* the examples among the first n whose prediction equals the target
Correct(res, preds, n) ==
    Cardinality({i \in 1..n : preds[i] = res[i].target})

\* the examples with target g and prediction p
Count(gths, preds, g, p) ==
    Cardinality({i \in 1..Len(gths) : gths[i] = g /\ preds[i] = p})

\* a score num / den in thousandths; sklearn's zero_division="warn", the
\* default, gives 0.0 for a zero denominator
Score(num, den) == IF den = 0 THEN 0 ELSE (num * MeanScale) \div den

\* (mutant) zero_division=1
PrecisionOrOne(gths, preds) ==
    IF Count(gths, preds, 1, 1) + Count(gths, preds, 0, 1) = 0 THEN MeanScale
    ELSE Score(Count(gths, preds, 1, 1),
               Count(gths, preds, 1, 1) + Count(gths, preds, 0, 1))

\* precision_score(gths, preds): tp / (tp + fp), of the class 1
Precision(gths, preds) ==
    Score(Count(gths, preds, 1, 1),
          Count(gths, preds, 1, 1) + Count(gths, preds, 0, 1))

\* recall_score(gths, preds): tp / (tp + fn)
Recall(gths, preds) ==
    Score(Count(gths, preds, 1, 1),
          Count(gths, preds, 1, 1) + Count(gths, preds, 1, 0))

\* f1_score(gths, preds): 2 tp / (2 tp + fp + fn)
F1(gths, preds) ==
    Score(2 * Count(gths, preds, 1, 1),
          2 * Count(gths, preds, 1, 1) + Count(gths, preds, 0, 1)
            + Count(gths, preds, 1, 0))

\* gths of a loop that appended every target
Gths(res) == [i \in 1..Len(res) |-> res[i].target]

\* after the loop: the accuracy, as <<correct, number of examples>>, and in
\* mustard_fusion the scores <<f1, precision, recall>>; sarc_fusion divides
\* by len(results)
Finish(v, res, loop) ==
    IF loop.status # "ok"
    THEN [status |-> loop.status, preds |-> loop.preds, detail |-> loop.detail,
          accuracy |-> <<>>, scores |-> <<>>]
    ELSE IF v = "sarc" /\ res = <<>>
    THEN [status |-> "ZeroDivisionError", preds |-> loop.preds,
          detail |-> loop.detail, accuracy |-> <<>>, scores |-> <<>>]
    ELSE [status |-> "ok", preds |-> loop.preds, detail |-> loop.detail,
          accuracy |-> <<Correct(res, loop.preds, Len(res)), Len(res)>>,
          scores |-> IF v = "sarc" THEN <<>>
                     ELSE <<F1(Gths(res), loop.preds), Precision(Gths(res), loop.preds),
                            Recall(Gths(res), loop.preds)>>]

\* empty lists the defaultdicts of the index hold
Defaults(res) ==
    Sum([i \in 1..Len(res) |->
            Cardinality({j \in 1..Len(res[i].logits) : res[i].logits[j].logits = <<>>})])

\* ------------------------------------------------------ strategy calls
InteractionTypes == {"AS", "R", "U", "baseline"}
\* weights of the entry points, in tenths, in the order ["AS", "R", "U"]
WeightNames == <<"AS", "R", "U">>
WeightLists == {<<0, 2, 2>>, <<5, 3, 2>>}
\* the sweep of the entry points, in tenths
Thresholds == {5, 6, 7, 8, 9}

Called(fn, arg, o) ==
    /\ pc = "loaded"
    /\ call' = [fn |-> fn, arg |-> arg]
    /\ out' = o
    /\ UNCHANGED <<variant, subset_names, files, k, pos, dataset, pc, trainer>>

interaction_type_acc ==
    \E t \in InteractionTypes :
        /\ Defaults(AfterLookups(results, t)) <= MaxDefaults
        /\ Called("interaction_type_acc", t,
                  Finish(variant, results, Loop(interaction_type_steps(results, t))))
        /\ results' = AfterLookups(results, t)

simple_average_fusion ==
    /\ Called("simple_average_fusion", 0,
              Finish(variant, results, Loop(simple_average_steps(results))))
    /\ UNCHANGED results

weighted_average_fusion ==
    \E weights \in WeightLists :
        /\ Called("weighted_average_fusion", weights,
                  Finish(variant, results, Loop(weighted_average_steps(results, weights))))
        /\ UNCHANGED results

max_fusion ==
    /\ Called("max_fusion", 0, Finish(variant, results, Loop(max_steps(results))))
    /\ UNCHANGED results

softmax_fusion ==
    /\ Called("softmax_fusion", 0, Finish(variant, results, Loop(softmax_steps(results))))
    /\ UNCHANGED results

cascaded_fusion ==
    \E threshold \in Thresholds :
        /\ Called("cascaded_fusion", threshold,
                  Finish(variant, results, Loop(cascaded_steps(variant, results, threshold))))
        /\ UNCHANGED results

\* ------------------------------------------------------ given files
\* An example of the test set: its key, its target and, for each expert,
\* the logits of the expert's line for it (Absent: the expert has no line).
Example(p, t, lg) == [key |-> p, target |-> t, logits |-> lg]

RECURSIVE FileFrom(_, _, _)
FileFrom(n, exs, i) ==
    IF i > Len(exs) THEN <<>>
    ELSE IF exs[i].logits[n] = Absent THEN FileFrom(n, exs, i + 1)
    ELSE <<Line(exs[i].key, exs[i].logits[n], exs[i].target)>> \o FileFrom(n, exs, i + 1)

\* the files of the experts for the examples exs: each expert's lines in
\* the order of the test set
Files(names, exs) == [n \in Range(names) |-> FileFrom(n, exs, 1)]

LogitVectors == {<<145, 0>>, <<0, 0>>, <<0, 300>>}
ConfidentVectors == {<<145, 0>>, <<0, 300>>}

\* logits of one example: any expert absent, or with any vector
AnyLogits(names) ==
    {lg \in [Range(names) -> LogitVectors \cup {Absent}] :
        "baseline" \in Range(names) => lg["baseline"] \in {Absent, <<0, 0>>}}

\* logits of an example AS, R and U all scored alike, with confidence
FullLogits(names) ==
    {[n \in Range(names) |-> IF n = "baseline" THEN Absent ELSE l] :
        l \in ConfidentVectors}

\* the end-to-end scenario: experts A and B are the files AS and R
ScenarioA == <<(<<200, 100>>), (<<100, 200>>), (<<0, 300>>)>>
ScenarioB == <<(<<100, 200>>), (<<200, 100>>), (<<100, 0>>)>>
ScenarioKeys == <<(<<"a", "b_c">>), (<<"b", "c">>), (<<"c", "d">>)>>
ScenarioTargets == <<0, 1, 1>>
Scenario(names) ==
    [i \in 1..3 |->
        Example(ScenarioKeys[i], ScenarioTargets[i],
                [n \in Range(names) |->
                    IF n = "AS" THEN ScenarioA[i]
                    ELSE IF n = "R" THEN ScenarioB[i] ELSE Absent])]

\* the test sets the runs are given
TestSets(names) ==
    {<<>>}
    \cup {<<Example(<<"a", "b_c">>, t, lg)>> : t \in Targets, lg \in AnyLogits(names)}
    \cup {<<Example(<<"a", "b_c">>, 0, l1), Example(<<"b", "c">>, t, l2)>> :
            t \in Targets, l1 \in FullLogits(names), l2 \in AnyLogits(names)}
    \cup {Scenario(names)}

InitOpen == \E v \in Variants : InitLoader(v, SubsetNames(v), Open)

NextLoad == ReadLine \/ EndOfFile \/ Return

\* the loader alone, over every way of filling the files with MaxRecords lines
SpecLoad == InitOpen /\ [][NextLoad]_vars

Init ==
    \E v \in Variants : \E exs \in TestSets(SubsetNames(v)) :
        InitLoader(v, SubsetNames(v), Files(SubsetNames(v), exs))

Next ==
    \/ ReadFileLine
    \/ EndOfFile
    \/ Return
    \/ interaction_type_acc
    \/ simple_average_fusion
    \/ weighted_average_fusion
    \/ max_fusion
    \/ softmax_fusion
    \/ cascaded_fusion

\* a run of an entry point: load the given files, then call strategies
Spec == Init /\ [][Next]_vars

\* ------------------------------------------------- a strategy on an index
\* The strategies take the index as their argument.  The vectors of the
\* experts of one example: equal entries, logits of 1000, ordinary logits
\* and an empty list
WideVectors == {<<30, 30>>, <<100000, 100000>>, <<0, 300>>, <<>>}

\* data["logits"] of one example: any of AS, R, U missing, including all
LogitMaps == UNION {[P -> WideVectors] : P \in SUBSET {"AS", "R", "U"}}

\* the dict lg with its keys in the order of names
RECURSIVE LogitsFrom(_, _, _)
LogitsFrom(names, lg, j) ==
    IF j > Len(names) THEN <<>>
    ELSE (IF names[j] \in DOMAIN lg
          THEN <<[logits |-> lg[names[j]], name |-> names[j]]>> ELSE <<>>)
         \o LogitsFrom(names, lg, j + 1)

\* an index of one example
IndexOf(names, lg, t) ==
    <<[logits |-> LogitsFrom(names, lg, 1), target |-> t, id |-> "a_b_c"]>>

InitCall ==
    \E v \in Variants : \E lg \in LogitMaps : \E t \in Targets :
        /\ variant = v
        /\ subset_names = SubsetNames(v)
        /\ files = Open
        /\ k = Len(SubsetNames(v)) + 1
        /\ pos = 0
        /\ dataset = [n \in Range(SubsetNames(v)) |-> <<>>]
        /\ results = IndexOf(SubsetNames(v), lg, t)
        /\ pc = "loaded"
        /\ call = NoCall
        /\ out = NoOut
        /\ trainer = NoTrainer

NextCall ==
    \/ interaction_type_acc
    \/ simple_average_fusion
    \/ weighted_average_fusion
    \/ max_fusion
    \/ softmax_fusion
    \/ cascaded_fusion

\* the strategies called on an index of one example
SpecCall == InitCall /\ [][NextCall]_vars

\* ------------------------------------------- properties of the runs (Spec)
\* the steps of the loop of the call c on the index res
StepsOf(v, res, c) ==
    CASE c.fn = "interaction_type_acc" -> interaction_type_steps(res, c.arg)
      [] c.fn = "simple_average_fusion" -> simple_average_steps(res)
      [] c.fn = "weighted_average_fusion" -> weighted_average_steps(res, c.arg)
      [] c.fn = "max_fusion" -> max_steps(res)
      [] c.fn = "softmax_fusion" -> softmax_steps(res)
      [] c.fn = "cascaded_fusion" -> cascaded_steps(v, res, c.arg)

\* what the call c does on the index res
OutOf(v, res, c) == Finish(v, res, Loop(StepsOf(v, res, c)))

After(fn) == pc = "loaded" /\ call.fn = fn

\* the example has logits of the expert n
Scored(lg, n) == HasName(lg, n) /\ GetItem(lg, n) # <<>>

ScoredRUAS(lg) == Scored(lg, "R") /\ Scored(lg, "U") /\ Scored(lg, "AS")

\* the maximum softmax probability of the expert n of the example
MaxProb(lg, n) == NpMax(Softmax(GetItem(lg, n)))

\* the expert the rule of the cascade names for the example
CascadeRule(lg, threshold) ==
    IF MaxProb(lg, "R") > Scaled(threshold) /\ MaxProb(lg, "U") > Scaled(threshold)
    THEN IF MaxProb(lg, "R") > MaxProb(lg, "U") THEN "R" ELSE "U"
    ELSE "AS"

\* C2: for every example with R, U and AS logits, cascaded_fusion predicts
\* the argmax of R or U, whichever has the higher maximum softmax probability
\* (U on a tie), when both maxima strictly exceed the threshold, and the
\* argmax of AS otherwise; and while every example has the three experts,
\* every example gets its prediction.
C2_CascadeRule ==
    After("cascaded_fusion") =>
        /\ \A i \in 1..Len(out.preds) :
            ScoredRUAS(results[i].logits) =>
                LET from == CascadeRule(results[i].logits, call.arg)
                IN  /\ out.detail[i] = from
                    /\ out.preds[i] = ArgMax(Softmax(GetItem(results[i].logits, from)))
        /\ \A i \in 1..Len(results) :
            (\A j \in 1..i : ScoredRUAS(results[j].logits)) => i <= Len(out.preds)

\* C2 witness: both maxima exceed the threshold and are equal: the
\* prediction is U's argmax, which is not AS's
C2_Witness ==
    /\ After("cascaded_fusion")
    /\ Len(out.preds) >= 1
    /\ ScoredRUAS(results[1].logits)
    /\ MaxProb(results[1].logits, "R") > Scaled(call.arg)
    /\ MaxProb(results[1].logits, "R") = MaxProb(results[1].logits, "U")
    /\ out.detail[1] = "U"
    /\ out.preds[1] = 0
    /\ ArgMax(Softmax(GetItem(results[1].logits, "AS"))) = 1

\* R's maximum exceeds the threshold and U's does not
OnlyRConfident(lg, threshold) ==
    /\ ScoredRUAS(lg)
    /\ MaxProb(lg, "R") > Scaled(threshold)
    /\ MaxProb(lg, "U") <= Scaled(threshold)

\* C3 as stated: when R's maximum softmax probability exceeds the threshold
\* and U's does not, the prediction comes from R's argmax, not from AS.
C3_PredictionFromR ==
    After("cascaded_fusion") =>
        \A i \in 1..Len(out.preds) :
            OnlyRConfident(results[i].logits, call.arg) =>
                /\ out.detail[i] = "R"
                /\ out.preds[i] = ArgMax(Softmax(GetItem(results[i].logits, "R")))

\* C3 amended: when R's maximum softmax probability exceeds the threshold
\* and U's does not, the prediction comes from AS's argmax, not from R.
C3_PredictionFromAS ==
    After("cascaded_fusion") =>
        \A i \in 1..Len(out.preds) :
            OnlyRConfident(results[i].logits, call.arg) =>
                /\ out.detail[i] = "AS"
                /\ out.preds[i] = ArgMax(Softmax(GetItem(results[i].logits, "AS")))

\* C3 witness: the stated case, R at 0.81 and U at 0.5 with threshold 0.8;
\* the prediction is AS's class 1 where R's argmax is class 0
C3_Witness ==
    /\ After("cascaded_fusion")
    /\ call.arg = 8
    /\ Len(out.preds) >= 1
    /\ ScoredRUAS(results[1].logits)
    /\ MaxProb(results[1].logits, "R") = 8099
    /\ MaxProb(results[1].logits, "U") = 5000
    /\ ArgMax(Softmax(GetItem(results[1].logits, "R"))) = 0
    /\ out.detail[1] = "AS"
    /\ out.preds[1] = 1

\* C4: the class a strategy predicts for an example is the class the same
\* call predicts for that example alone, whatever examples came before it.
C4_PerExample ==
    (pc = "loaded" /\ call # NoCall) =>
        \A i \in 1..Len(out.preds) :
            LET alone == Loop(StepsOf(variant, <<results[i]>>, call))
            IN  alone.status = "ok" /\ alone.preds = <<out.preds[i]>>

\* C5: cascaded_fusion on an index with an example that lacks R, U or AS
\* fails, and fails before any prediction is computed.
C5_MissingExpertFailsFirst ==
    After("cascaded_fusion") =>
        ((\E i \in 1..Len(results) : ~ScoredRUAS(results[i].logits)) =>
            out.status # "ok" /\ out.preds = <<>>)

\* the experts the example has logits of
ScoredCount(lg) == Cardinality({j \in 1..Len(lg) : lg[j].logits # <<>>})

\* C6: weighted_average_fusion fails when an example has more experts than
\* there are weights.
C6_UncoveredExpertFails ==
    After("weighted_average_fusion") =>
        ((\E i \in 1..Len(results) : ScoredCount(results[i].logits) > Len(call.arg)) =>
            out.status # "ok")

\* the weight the entry points designate for the expert n, 0 if none
WeightOf(weights, n) ==
    Sum([j \in 1..Len(WeightNames) |-> IF WeightNames[j] = n THEN weights[j] ELSE 0])

\* the weighted sum with every expert under the weight of its name
ByName(lg, weights) ==
    [c \in 1..Len(lg[1].logits) |->
        Sum([j \in 1..Len(lg) |-> WeightOf(weights, lg[j].name) * lg[j].logits[c]])]

\* C7: the weighted logits of every example are the sum of each expert's
\* logits times the weight designated for that expert's name.
C7_WeightsByName ==
    After("weighted_average_fusion") =>
        \A i \in 1..Len(out.detail) :
            out.detail[i] = ByName(results[i].logits, call.arg)

\* C9: once loaded the index never changes, so it is the index the loader
\* returned and every call does what it does on that index.
C9_IndexReadOnly ==
    pc = "loaded" =>
        /\ results = Load(subset_names, dataset).res
        /\ call # NoCall => out = OutOf(variant, Load(subset_names, dataset).res, call)

\* the sum of the logits of class c (0-based) over the experts of the example
ClassSum(lg, c) == Sum([j \in 1..Len(lg) |-> lg[j].logits[c + 1]])

\* p is the first class whose mean logit over the experts is the maximum
\* (the means of one example share the divisor, so the sums order them)
FirstMaxOfMean(lg, p) ==
    /\ p \in 0..(Len(lg[1].logits) - 1)
    /\ \A c \in 0..(Len(lg[1].logits) - 1) : ClassSum(lg, c) <= ClassSum(lg, p)
    /\ \A c \in 0..(p - 1) : ClassSum(lg, c) < ClassSum(lg, p)

ScenarioGiven == files = Files(subset_names, Scenario(subset_names))

\* C10: simple_average_fusion predicts for every example the first index of
\* the maximum of the elementwise mean of the logits of its experts; every
\* example gets a prediction when every expert entry holds logits; on the
\* loaded index of the end-to-end scenario the predictions are [0, 0, 1] and
\* the accuracy 2/3.
C10_SimpleAverage ==
    After("simple_average_fusion") =>
        /\ \A i \in 1..Len(out.preds) : FirstMaxOfMean(results[i].logits, out.preds[i])
        /\ (\A i \in 1..Len(results) : \A j \in 1..Len(results[i].logits) :
                results[i].logits[j].logits # <<>>)
            => Len(out.preds) = Len(results)
        /\ (ScenarioGiven /\ results = Load(subset_names, dataset).res)
            => /\ out.status = "ok"
               /\ out.preds = <<0, 0, 1>>
               /\ out.accuracy = <<2, 3>>

\* C10 witness: the end-to-end scenario after simple_average_fusion
C10_Witness ==
    /\ After("simple_average_fusion")
    /\ ScenarioGiven
    /\ Len(results) = 3
    /\ Values(results[1].logits) = <<(<<200, 100>>), (<<100, 200>>)>>
    /\ Values(results[3].logits) = <<(<<0, 300>>), (<<100, 0>>)>>
    /\ out.preds = <<0, 0, 1>>
    /\ out.accuracy = <<2, 3>>

\* ------------------------------------- properties of the loader (SpecLoad)
\* the lines read so far, in the order they were read
RECURSIVE ReadFrom(_)
ReadFrom(j) ==
    IF j > Len(subset_names) THEN <<>>
    ELSE dataset[subset_names[j]] \o ReadFrom(j + 1)

ReadOrder == ReadFrom(1)

\* the target of the first of the lines read that has the key d
FirstTarget(d) ==
    LET first == CHOOSE i \in 1..Len(ReadOrder) :
                    /\ DataId(ReadOrder[i]) = d
                    /\ \A j \in 1..(i - 1) : DataId(ReadOrder[j]) # d
    IN  ReadOrder[first].target

\* a line read whose target differs from the one recorded for its key
Conflict ==
    \E i \in 1..Len(ReadOrder) :
        ReadOrder[i].target # FirstTarget(DataId(ReadOrder[i]))

\* C1: a line whose target differs from the target recorded for its example
\* id aborts the load (no index is returned), and the target recorded for
\* an id is always the target of the first line read for that id.
C1_TargetOfFirstRecord ==
    /\ \A i \in 1..Len(results) : results[i].target = FirstTarget(results[i].id)
    /\ (pc = "aborted") = Conflict
    /\ pc = "loaded" => ~Conflict

\* C1 witness: a load aborted by a line of another file whose target
\* differs, the recorded target still that of the first line
C1_Witness ==
    /\ pc = "aborted"
    /\ Len(ReadOrder) = 2
    /\ DataId(ReadOrder[1]) = DataId(ReadOrder[2])
    /\ ReadOrder[1].target = 0 /\ ReadOrder[2].target = 1
    /\ Len(results) = 1 /\ results[1].target = 0
    /\ Len(results[1].logits) = 2

\* the index as a mapping: the keys, and for each key the target and the
\* expert-name -> logits mapping, insertion order forgotten
AsMapping(res) ==
    {[id |-> res[i].id, target |-> res[i].target,
      logits |-> {<<res[i].logits[j].name, res[i].logits[j].logits>> :
                    j \in 1..Len(res[i].logits)}] : i \in 1..Len(res)}

\* the orders the names of `names` can be visited in
Orders(names) ==
    {o \in [1..Len(names) -> Range(names)] :
        \A i, j \in 1..Len(names) : i # j => o[i] # o[j]}

\* the orders each script's subset_names can be visited in
MustardOrders == Orders(SubsetNames("mustard"))
SarcOrders == Orders(SubsetNames("sarc"))
OtherOrders == IF variant = "mustard" THEN MustardOrders ELSE SarcOrders

\* C8: when the load meets no target conflict, loading the same files with
\* the experts visited in any other order meets none either and yields the
\* same keys, each with the same expert -> logits mapping and target.
C8_LoadingCommutes ==
    pc = "loaded" =>
        LET index == AsMapping(results)
        IN  \A o \in OtherOrders :
                LET other == Load(o, dataset)
                IN  other.ok /\ AsMapping(other.res) = index

\* C8 witness: an example two experts scored, which another visiting order
\* builds with the experts inserted the other way round, equal as a mapping
C8_Witness ==
    /\ pc = "loaded"
    /\ Len(results) = 1
    /\ Len(results[1].logits) = 2
    /\ results[1].logits[1].logits # results[1].logits[2].logits
    /\ \E o \in OtherOrders :
        LET other == Load(o, dataset).res
        IN  /\ other[1].logits[1] = results[1].logits[2]
            /\ other[1].logits[2] = results[1].logits[1]
            /\ AsMapping(other) = AsMapping(results)

\* the line whose assert aborted the load: the last line read
Offending == ReadOrder[Len(ReadOrder)]

\* the exception's args name the example or the file of the line
Locates(args, name, line) ==
    \E a \in 1..Len(args) :
        args[a] \in {DataId(line), line.image_id, line.text, name}

\* C15: a load aborted by a target mismatch reports an error that carries
\* the example id, or the file, of the offending line.
C15_ErrorLocatesRecord ==
    pc = "aborted" => Locates(out.detail, subset_names[k], Offending)

\* C16: two lines read with the same example id have the same image_id and
\* the same text, so an index entry holds the lines of one example only.
C16_KeyInjective ==
    \A i, j \in 1..Len(ReadOrder) :
        DataId(ReadOrder[i]) = DataId(ReadOrder[j]) =>
            /\ ReadOrder[i].image_id = ReadOrder[j].image_id
            /\ ReadOrder[i].text = ReadOrder[j].text

\* ------------------------------------ properties of the runs (Spec), sarc
\* C20: every strategy of sarc_fusion returns, on every index, the number of
\* examples predicted as their target divided by the number of examples.
C20_SarcAccuracy ==
    (variant = "sarc" /\ pc = "loaded" /\ call # NoCall) =>
        /\ out.status = "ok"
        /\ Len(results) > 0
        /\ out.accuracy = <<Correct(results, out.preds, Len(results)), Len(results)>>

\* ---------------------------- properties of the strategies (SpecCall)
\* the vector whose argmax is the i-th prediction of the last call: the
\* combined vector, and in cascaded_fusion the softmax of the chosen expert
Combined(i) ==
    IF call.fn = "cascaded_fusion"
    THEN Softmax(GetItem(results[i].logits, out.detail[i]))
    ELSE out.detail[i]

\* p is the lowest index (from 0) at which v attains its maximum
FirstMaximum(v, p) ==
    /\ p + 1 \in 1..Len(v)
    /\ \A c \in 1..Len(v) : v[c] <= v[p + 1]
    /\ \A c \in 1..p : v[c] < v[p + 1]

\* C11: every prediction is the lowest index at which the vector it is the
\* argmax of attains its maximum; of a vector of equal entries it is 0.
C11_FirstOfEqualMaxima ==
    (pc = "loaded" /\ call # NoCall) =>
        \A i \in 1..Len(out.preds) :
            /\ NaN \notin Range(Combined(i)) => FirstMaximum(Combined(i), out.preds[i])
            /\ (\A c \in 1..Len(Combined(i)) : Combined(i)[c] = Combined(i)[1])
                    => out.preds[i] = 0

\* C11 witness: softmax_fusion on experts that all give [0.3, 0.3]: the
\* averaged probabilities are equal and the prediction is 0
C11_Witness ==
    /\ After("softmax_fusion")
    /\ Values(results[1].logits) = <<(<<30, 30>>), (<<30, 30>>)>>
    /\ out.detail[1][1] = out.detail[1][2]
    /\ out.detail[1][1] # NaN
    /\ out.preds = <<0>>

\* C12: in softmax_fusion and cascaded_fusion the softmax of every expert's
\* vector is free of nan, the softmax of [1000, 1000] is [0.5, 0.5], and the
\* prediction of an example with experts is the argmax of a vector free of
\* nan.
C12_SoftmaxStable ==
    (After("softmax_fusion") \/ After("cascaded_fusion")) =>
        /\ \A i \in 1..Len(results) : \A j \in 1..Len(results[i].logits) :
            LET v == results[i].logits[j].logits
            IN  /\ NaN \notin Range(Softmax(v))
                /\ v = <<100000, 100000>> =>
                        Softmax(v) = <<ProbScale \div 2, ProbScale \div 2>>
        /\ \A i \in 1..Len(out.preds) :
            results[i].logits # <<>> => NaN \notin Range(Combined(i))

\* C14: no strategy returns a prediction for an example without expert
\* scores (an empty logits map, or one holding only empty lists); the call
\* ends in an error at that example.
C14_NoScoresNoPrediction ==
    (pc = "loaded" /\ call # NoCall) =>
        /\ \A i \in 1..Len(out.preds) : ScoredCount(results[i].logits) > 0
        /\ (\E i \in 1..Len(results) : ScoredCount(results[i].logits) = 0)
                => out.status # "ok"

\* ------------------------------- properties of the runs (Spec), the scores
\* C13: a mustard strategy whose loop ends returns its scores, whatever the
\* labels; with no predicted class 1 or no target of class 1 among the
\* examples, f1, precision and recall are 0.0; the accuracy is the number of
\* predictions equal to their target out of the number of examples.
C13_DegenerateScores ==
    (variant = "mustard" /\ pc = "loaded" /\ call # NoCall /\ results # <<>>) =>
        /\ Len(out.preds) = Len(results) => out.status = "ok"
        /\ out.status = "ok" =>
            /\ (\/ \A i \in 1..Len(results) : out.preds[i] # 1
                \/ \A i \in 1..Len(results) : results[i].target # 1)
                    => out.scores = <<0, 0, 0>>
            /\ out.accuracy =
                    <<Cardinality({i \in 1..Len(results) :
                                    out.preds[i] = results[i].target}),
                      Len(results)>>

\* C13 witness: every prediction is class 0 and every target is class 1
C13_Witness ==
    /\ variant = "mustard"
    /\ After("simple_average_fusion")
    /\ out.preds = <<0>>
    /\ results[1].target = 1
    /\ out.status = "ok"
    /\ out.scores = <<0, 0, 0>>
    /\ out.accuracy = <<0, 1>>

\* --------------------------------------------- expert_BLIP2/train.py, train
MaxEpochs == 2      \* args.epochs
MaxBatches == 2     \* batches of train_dataloader

\* best_f1 = -1
InitialBestF1 == -1

\* args.eval_steps; 10 is its default
EvalSteps == {1, 2, 3, 10}

\* the labels of the batches of val_dataloader
ValLabels == {<<>>, <<1>>, <<0, 1>>, <<1, 1>>}

\* predictions = torch.argmax(yesno_logits[:, :2], dim=-1): class 0 or 1 for
\* every validation example, as the model then scores them
Predictions(labels) == [1..Len(labels) -> {0, 1}]

\* (mutant) `>` for `>=`: an equal F1 does not overwrite the checkpoint
SaveWhenGreater(f1, best_f1) == f1 > best_f1

\* if f1 >= best_f1
SaveWhen(f1, best_f1) == f1 >= best_f1

\* the fusion scripts do not run
NoFusion ==
    /\ variant = "mustard"
    /\ subset_names = <<>>
    /\ files = Open
    /\ k = 1
    /\ pos = 0
    /\ dataset = <<>>
    /\ results = <<>>
    /\ pc = "none"
    /\ call = NoCall
    /\ out = NoOut

fusionVars == <<variant, subset_names, files, k, pos, dataset, results, pc, call, out>>

\* train() after best_f1 = -1 and model.train().  evals, bests, saves and
\* step_training record the run: the F1 of each in-loop evaluation, best_f1
\* after each, the evaluations that saved, model.training at each optimizer
\* step
InitTrain ==
    /\ NoFusion
    /\ \E epochs \in 0..MaxEpochs : \E eval_steps \in EvalSteps :
       \E batches \in 0..MaxBatches : \E labels \in ValLabels :
        trainer = [pc |-> "start", epochs |-> epochs, eval_steps |-> eval_steps,
                   train_batches |-> batches, val_labels |-> labels,
                   training |-> TRUE, epoch |-> 0, step |-> 0, total_step |-> 0,
                   best_f1 |-> InitialBestF1, saved |-> 0,
                   evals |-> <<>>, bests |-> <<>>, saves |-> {},
                   step_training |-> <<>>]

\* the evaluate() before the loop: model.eval(), then the scores; with no
\* validation example total_correct / total divides by zero
initial_evaluate ==
    /\ trainer.pc = "start"
    /\ trainer' = [trainer EXCEPT
            !.training = FALSE,
            !.pc = IF trainer.val_labels = <<>> THEN "ZeroDivisionError" ELSE "loop"]
    /\ UNCHANGED fusionVars

\* one batch: total_step += 1, forward, loss.backward(), optimizer.step()
optimizer_step ==
    /\ trainer.pc = "loop"
    /\ trainer.epoch < trainer.epochs
    /\ trainer.step < trainer.train_batches
    /\ trainer' = [trainer EXCEPT
            !.total_step = @ + 1,
            !.step = @ + 1,
            !.step_training = Append(@, trainer.training),
            !.pc = "check"]
    /\ UNCHANGED fusionVars

\* if (total_step + 1) % args.eval_steps == 0: evaluate(), and save the
\* model and the logits when f1 >= best_f1
periodic_evaluate ==
    /\ trainer.pc = "check"
    /\ (trainer.total_step + 1) % trainer.eval_steps = 0
    /\ \E predictions \in Predictions(trainer.val_labels) :
        LET f1 == F1(trainer.val_labels, predictions)
            n == Len(trainer.evals) + 1
        IN  trainer' =
                IF SaveWhen(f1, trainer.best_f1)
                THEN [trainer EXCEPT !.training = FALSE, !.evals = Append(@, f1),
                                     !.best_f1 = f1, !.bests = Append(@, f1),
                                     !.saved = n, !.saves = @ \cup {n},
                                     !.pc = "loop"]
                ELSE [trainer EXCEPT !.training = FALSE, !.evals = Append(@, f1),
                                     !.bests = Append(@, trainer.best_f1),
                                     !.pc = "loop"]
    /\ UNCHANGED fusionVars

\* the condition of the if is false
no_evaluate ==
    /\ trainer.pc = "check"
    /\ (trainer.total_step + 1) % trainer.eval_steps # 0
    /\ trainer' = [trainer EXCEPT !.pc = "loop"]
    /\ UNCHANGED fusionVars

\* train_dataloader is exhausted: the next epoch
end_of_epoch ==
    /\ trainer.pc = "loop"
    /\ trainer.epoch < trainer.epochs
    /\ trainer.step = trainer.train_batches
    /\ trainer' = [trainer EXCEPT !.epoch = @ + 1, !.step = 0]
    /\ UNCHANGED fusionVars

\* range(args.epochs) is exhausted: train() returns
return_train ==
    /\ trainer.pc = "loop"
    /\ trainer.epoch = trainer.epochs
    /\ trainer' = [trainer EXCEPT !.pc = "done"]
    /\ UNCHANGED fusionVars

NextTrain ==
    \/ initial_evaluate
    \/ optimizer_step
    \/ periodic_evaluate
    \/ no_evaluate
    \/ end_of_epoch
    \/ return_train

\* train() for every args.epochs, args.eval_steps, number of batches and
\* validation set
SpecTrain == InitTrain /\ [][NextTrain]_vars

\* --------------------------------------- properties of train (SpecTrain)
\* C17: every optimizer step runs with the model in training mode.
C17_StepsInTrainingMode ==
    \A i \in 1..Len(trainer.step_training) : trainer.step_training[i]

\* C18: when train() has returned, a checkpoint was saved at args.save_path.
C18_CheckpointSaved == trainer.pc = "done" => trainer.saved # 0

\* the greatest of the first n in-loop F1, -1 when n = 0
RECURSIVE RunningMax(_, _)
RunningMax(evals, n) ==
    IF n = 0 THEN InitialBestF1
    ELSE IF evals[n] >= RunningMax(evals, n - 1) THEN evals[n]
    ELSE RunningMax(evals, n - 1)

\* C19: best_f1 is the greatest F1 of the in-loop evaluations so far (-1
\* before the first) and never decreases; a checkpoint was written exactly
\* at the evaluations whose F1 was at least the best before them; the
\* checkpoint at save_path is that of the latest evaluation whose F1 is the
\* greatest so far.
C19_BestCheckpoint ==
    LET evals == trainer.evals
        n == Len(evals)
    IN  /\ trainer.best_f1 = RunningMax(evals, n)
        /\ Len(trainer.bests) = n
        /\ \A i \in 1..n : trainer.bests[i] = RunningMax(evals, i)
        /\ \A i \in 1..n : \A j \in i..n : trainer.bests[i] <= trainer.bests[j]
        /\ trainer.saves = {i \in 1..n : evals[i] >= RunningMax(evals, i - 1)}
        /\ n = 0 => trainer.saved = 0
        /\ n > 0 =>
            /\ trainer.saved \in 1..n
            /\ evals[trainer.saved] = RunningMax(evals, n)
            /\ \A j \in (trainer.saved + 1)..n : evals[j] < RunningMax(evals, n)

\* C19 witness: a higher F1, a lower one (not saved), then an equal one,
\* which overwrites the checkpoint
C19_Witness ==
    /\ trainer.pc = "loop"
    /\ Len(trainer.evals) = 3
    /\ trainer.evals[1] = trainer.evals[3]
    /\ trainer.evals[2] < trainer.evals[1]
    /\ trainer.saves = {1, 3}
    /\ trainer.saved = 3
    /\ trainer.best_f1 = trainer.evals[1]
====
